---- MODULE Spec2Model ----
(***************************************************************************)
(* orenoagent-cli: a Bubble Tea chat front end for the orenoagent agent.   *)
(*                                                                         *)
(* The repository holds two programs with the same structure:             *)
(*   "part_000"  src/unnamed/part_000 together with src/tool.go            *)
(*   "part_001"  src/unnamed/part_001 (self-contained, its own tool table) *)
(* The variable build says which of the two is running.                    *)
(*                                                                         *)
(* A Go string is modelled as a sequence of tokens: one token per          *)
(* character of user or agent text, one token per label word and one token *)
(* per ANSI escape sequence that lipgloss emits.                           *)
(***************************************************************************)
EXTENDS Integers, Sequences, FiniteSets, TLC

\* ------------------------------------------------------------------ bounds
MaxTasks == 2      \* Enter submissions (background tasks) per run
MaxInput == 1      \* characters the input box holds (the code's CharLimit is 280)
MaxOther == 2      \* events other than Enter and agent messages that Update handles per run

\* ------------------------------------------------------- program constants
InitWidth == 30        \* viewport.New(30, 5), ta.SetWidth(30)
InitHeight == 5        \* viewport.New(30, 5)
TextareaHeight == 3    \* ta.SetHeight(3)
GapHeight == 3         \* lipgloss.Height(gap), gap = "\n\n"

Builds == {"part_000", "part_001"}

\* ------------------------------------------------------------ input sets
Runes == {"a"}                          \* printable keys typed into the input box
\* orenoagent.Result values: a dynamic type and the text r.String() returns.
\* OtherResult stands for any result type that ask's switch has no case for.
Result(type, text) == [type |-> type, text |-> text]
\* the result sequences the agent may put on one question's channel (it may
\* also stop after any prefix of one)
Streams ==
    { <<Result("ReasoningResult", <<"x">>), Result("MessageResult", <<"y">>)>>,
      <<Result("FunctionCallResult", <<"x">>)>>,
      <<Result("ReasoningResult", <<"x">>), Result("OtherResult", <<"y">>),
        Result("MessageResult", <<"y">>)>> }
Sizes == {<<6, 7>>}                  \* tea.WindowSizeMsg{Width, Height}
Errs == {"e1"}                          \* errMsg values

NL == "\n"
SP == " "

\* ----------------------------------------------------------------- strings
RECURSIVE Concat(_)
\* s1 + s2 + ... over a sequence of strings
Concat(ss) == IF ss = <<>> THEN <<>> ELSE Head(ss) \o Concat(Tail(ss))

RECURSIVE Join(_, _)
\* strings.Join(ss, sep)
Join(ss, sep) ==
    IF ss = <<>> THEN <<>>
    ELSE IF Len(ss) = 1 THEN ss[1]
    ELSE ss[1] \o sep \o Join(Tail(ss), sep)

RECURSIVE Repeat(_, _)
Repeat(tok, n) == IF n <= 0 THEN <<>> ELSE <<tok>> \o Repeat(tok, n - 1)

RECURSIVE SplitFrom(_, _, _)
SplitFrom(s, i, cur) ==
    IF i > Len(s) THEN <<cur>>
    ELSE IF s[i] = NL THEN <<cur>> \o SplitFrom(s, i + 1, <<>>)
    ELSE SplitFrom(s, i + 1, Append(cur, s[i]))

\* strings.Split(s, "\n"): the lines of s
Split(s) == SplitFrom(s, 1, <<>>)

\* strings.Count(s, "\n")
CountNL(s) == Cardinality({i \in 1..Len(s) : s[i] = NL})

\* ---------------------------------------------------------------- lipgloss
\* ANSI escape sequences: zero cells wide.
EscTokens == {"ESC[bg2m", "ESC[bg5m", "ESC[fg241m", "ESC[0m"}

\* printable width of one token (lipgloss.Width of it)
Cells(tok) ==
    CASE tok \in EscTokens -> 0
      [] tok = " You " -> 5
      [] tok = "You:" -> 4
      [] tok = " Agent " -> 7
      [] tok = "Agent" -> 5
      [] tok = " Reasoning " -> 11
      [] tok = "Reasoning" -> 9
      [] tok = " Function Call " -> 15
      [] tok = "Function Call" -> 13
      [] OTHER -> 1

\* lipgloss.NewStyle().Background(lipgloss.Color(c)).Render(s)
Background(c, s) == <<"ESC[bg" \o c \o "m">> \o s \o <<"ESC[0m">>
\* lipgloss.NewStyle().Foreground(lipgloss.Color(c)).Render(s)
Foreground(c, s) == <<"ESC[fg" \o c \o "m">> \o s \o <<"ESC[0m">>

RECURSIVE WrapLine(_, _, _, _)
\* one line wrapped at w cells: tokens are never split, a token that does not
\* fit the rest of the line opens a new one (cur is the line being filled, of
\* curw cells)
WrapLine(line, cur, curw, w) ==
    IF line = <<>> THEN <<cur>>
    ELSE LET t == Head(line)
             c == Cells(t)
         IN IF curw > 0 /\ curw + c > w /\ c > 0
            THEN <<cur>> \o WrapLine(Tail(line), <<t>>, c, w)
            ELSE WrapLine(Tail(line), Append(cur, t), curw + c, w)

RECURSIVE WrapLines(_, _)
WrapLines(lines, w) ==
    IF lines = <<>> THEN <<>>
    ELSE (IF w > 0 THEN WrapLine(Head(lines), <<>>, 0, w) ELSE <<Head(lines)>>)
         \o WrapLines(Tail(lines), w)

\* lipgloss.NewStyle().Width(w).Render(s): every line wrapped at w cells (no
\* wrapping when w <= 0).  The spaces lipgloss adds at line ends to pad every
\* line to a common width are not modelled.
WidthRender(w, s) == Join(WrapLines(Split(s), w), <<NL>>)

\* the entry box of part_000's render: PaddingTop(1), PaddingLeft(1),
\* PaddingRight(1), a bottom border in colour 241 (one token stands for the
\* whole border line)
Box(s) ==
    LET lines == Split(s)
        padded == [i \in 1..Len(lines) |-> <<SP>> \o lines[i] \o <<SP>>]
        top == <<SP, SP>>
        border == Foreground("241", <<"BORDER">>)
    IN Join(<<top>> \o padded \o <<border>>, <<NL>>)

\* ------------------------------------------------------------------- state
VARIABLES
    build,      \* which of the two programs runs
    messages,   \* model.messages: the transcript, a []string
    origin,     \* history: for each element of messages, the task and result it came from
    textarea,   \* model.textarea: [value, width]
    viewport,   \* model.viewport: [Width, Height, content, YOffset]
    err,        \* model.err
    tasks,      \* the goroutines started by ask, in start order, each with its result channel
    stdout,     \* lines written by fmt.Println
    quitCmds,   \* tea.Quit commands returned by Update whose QuitMsg has not arrived yet
    others,     \* history: events other than Enter and agent messages handled so far
    tool,       \* the tool handler invocation in progress (made by the agent), or NoCall
    status      \* "running", or "quit" once the event loop has received a QuitMsg

chatVars == <<messages, origin, textarea, viewport, err, tasks, stdout, quitCmds, others, status>>

vars == <<build, messages, origin, textarea, viewport, err, tasks, stdout, quitCmds, others, status, tool>>

NoMsg == [type |-> "none", message |-> <<>>]
NoCall == [name |-> "none", args |-> <<>>, pc |-> "idle", param |-> "", req |-> "none",
           netCalls |-> 0, result |-> ""]
NoErr == "nil"

\* ---------------------------------------------------------------- viewport
\* len(m.lines): the lines of the content
LineCount(vp) == CountNL(vp.content) + 1

\* viewport.Model.maxYOffset
maxYOffset(vp) ==
    LET d == LineCount(vp) - vp.Height IN IF d > 0 THEN d ELSE 0

\* viewport.Model.GotoBottom
GotoBottom(vp) == [vp EXCEPT !.YOffset = maxYOffset(vp)]

\* viewport.Model.SetContent
SetContent(vp, s) ==
    LET v == [vp EXCEPT !.content = s]
    IN IF v.YOffset > LineCount(v) - 1 THEN GotoBottom(v) ELSE v

\* viewport.Model.Update for a key the viewport's key map binds to "one line up"
ViewportLineUp(vp) ==
    IF vp.YOffset = 0 THEN vp ELSE [vp EXCEPT !.YOffset = vp.YOffset - 1]

\* ---------------------------------------------------------------- textarea
\* textarea.Model.InsertString / insertRunesFromUserInput: nothing is inserted
\* once the character limit is reached
InsertString(ta, s) ==
    IF Len(ta.value) + Len(s) > MaxInput THEN ta
    ELSE [ta EXCEPT !.value = ta.value \o s]

\* textarea.Model.Reset
Reset(ta) == [ta EXCEPT !.value = <<>>]

\* textarea.Model.SetWidth
SetWidth(ta, w) == [ta EXCEPT !.width = w]

\* --------------------------------------------------------- message content
\* answerMessage.Content (part_000)
AnswerContent(m) == Background("2", <<" Agent ">>) \o <<SP>> \o m
\* reasoningMessage.Content (part_000)
ReasoningContent(m) == Background("2", <<" Reasoning ">>) \o <<SP>> \o Foreground("241", m)
\* functionCallMessage.Content (part_000)
FunctionCallContent(m) ==
    Background("2", <<" Function Call ">>) \o <<SP>> \o Foreground("241", m)


\* AgentEntry with a reasoning message given the answer's label
AgentEntry_WrongRole(b, msg) ==
    IF b = "part_000"
    THEN CASE msg.type = "answerMessage" -> <<AnswerContent(msg.message)>>
           [] msg.type = "reasoningMessage" -> <<AnswerContent(msg.message)>>
           [] msg.type = "functionCallMessage" -> <<FunctionCallContent(msg.message)>>
    ELSE CASE msg.type = "answerMessage" -> <<Background("2", <<"Agent">>), msg.message>>
           [] msg.type = "reasoningMessage" -> <<Background("2", <<"Agent">>), msg.message>>
           [] msg.type = "functionCallMessage" ->
                <<Background("2", <<"Function Call">>), msg.message>>

\* what Update appends to m.messages for an agent message
AgentEntry(b, msg) ==
    IF b = "part_000"
    THEN CASE msg.type = "answerMessage" -> <<AnswerContent(msg.message)>>
           [] msg.type = "reasoningMessage" -> <<ReasoningContent(msg.message)>>
           [] msg.type = "functionCallMessage" -> <<FunctionCallContent(msg.message)>>
    ELSE CASE msg.type = "answerMessage" -> <<Background("2", <<"Agent">>), msg.message>>
           [] msg.type = "reasoningMessage" -> <<Background("2", <<"Reasoning">>), msg.message>>
           [] msg.type = "functionCallMessage" ->
                <<Background("2", <<"Function Call">>), msg.message>>


\* SubmitMessage reading the input box after it was reset
SubmitMessage_AfterReset(b, ta) ==
    IF b = "part_000" THEN Reset(ta).value ELSE Reset(ta).value \o <<NL>>

\* the local variable message of the KeyEnter case
SubmitMessage(b, ta) == IF b = "part_000" THEN ta.value ELSE ta.value \o <<NL>>

\* what Update appends to m.messages on Enter
UserEntry(b, message) ==
    IF b = "part_000"
    THEN <<Background("5", <<" You ">>) \o <<SP>> \o message>>
    ELSE <<Background("5", <<"You:">>), message>>

\* ------------------------------------------------------------------ render
RECURSIVE RenderBoxes(_, _)
\* the loop of model.render (part_000): s = s + box(message), in index order
RenderBoxes(msgs, w) ==
    IF msgs = <<>> THEN <<>>
    ELSE Box(WidthRender(w, Head(msgs))) \o RenderBoxes(Tail(msgs), w)

\* the string handed to viewport.SetContent after a transcript change
RenderString(b, msgs, w) ==
    IF b = "part_000" THEN RenderBoxes(msgs, w)
    ELSE WidthRender(w, Join(msgs, <<NL>>))


\* render that wraps what the viewport already shows instead of the transcript
render_Rewrap(b, msgs, vp) == SetContent(vp, WidthRender(vp.Width, vp.content))

\* model.render (part_000); the SetContent(...Join...) line of part_001
render(b, msgs, vp) == SetContent(vp, RenderString(b, msgs, vp.Width))

\* -------------------------------------------------------------------- Init
WelcomeText ==
    <<"Welcome to ore-no-agent!", NL, "Type a message and press Enter to send.">>

\* initialModel
Init ==
    /\ build \in Builds
    /\ messages = <<>>
    /\ origin = <<>>
    /\ textarea = [value |-> <<>>, width |-> InitWidth]
    /\ viewport = SetContent([Width |-> InitWidth, Height |-> InitHeight,
                              content |-> <<>>, YOffset |-> 0], WelcomeText)
    /\ err = NoErr
    /\ tasks = <<>>
    /\ stdout = <<>>
    /\ quitCmds = 0
    /\ others = 0
    /\ status = "running"
    /\ tool = NoCall

\* ------------------------------------------------------- background tasks
\* ask: the goroutine it starts, about to call agent.Ask(ctx, question)
ask(question) ==
    [question |-> question, pc |-> "ask", stream |-> <<>>, closed |-> FALSE,
     msg |-> NoMsg]


\* ToMsg with a default case that sends any other result as an answer
ToMsg_DefaultAnswer(b, r) ==
    LET message == IF b = "part_000" THEN r.text ELSE r.text \o <<NL>>
    IN CASE r.type = "ReasoningResult" -> [type |-> "reasoningMessage", message |-> message]
         [] r.type = "FunctionCallResult" ->
              [type |-> "functionCallMessage", message |-> message]
         [] OTHER -> [type |-> "answerMessage", message |-> message]

\* the switch of ask's loop: the tea.Msg sent for one result, NoMsg when no case matches
ToMsg(b, r) ==
    LET message == IF b = "part_000" THEN r.text ELSE r.text \o <<NL>>
    IN CASE r.type = "MessageResult" -> [type |-> "answerMessage", message |-> message]
         [] r.type = "ReasoningResult" -> [type |-> "reasoningMessage", message |-> message]
         [] r.type = "FunctionCallResult" ->
              [type |-> "functionCallMessage", message |-> message]
         [] OTHER -> NoMsg

Running == status = "running"

IsPrefix(p, q) == Len(p) <= Len(q) /\ p = SubSeq(q, 1, Len(p))

\* the results the agent may yield next on a channel that carried stream so far
NextResults(stream) ==
    {q[Len(stream) + 1] : q \in {q \in Streams : Len(q) > Len(stream) /\ IsPrefix(stream, q)}}

\* results, _ := agent.Ask(ctx, question) returns a channel
TaskAsk(i) ==
    /\ Running
    /\ i \in 1..Len(tasks)
    /\ tasks[i].pc = "ask"
    /\ tasks' = [tasks EXCEPT ![i].pc = "range"]
    /\ UNCHANGED <<build, messages, origin, textarea, viewport, err, stdout, quitCmds, others, status, tool>>


\* TaskAskFail with the error handed to the model's err field
TaskAskFail_Reported(i) ==
    /\ Running
    /\ i \in 1..Len(tasks)
    /\ tasks[i].pc = "ask"
    /\ \E outcome \in {"blocked", "done"} :
          tasks' = [tasks EXCEPT ![i].pc = outcome, ![i].closed = (outcome = "done")]
    /\ err' = "ask failed"
    /\ UNCHANGED <<build, messages, origin, textarea, viewport, stdout, quitCmds, others, status, tool>>

\* agent.Ask fails and the error is discarded: the range loop then runs over
\* whatever channel the library returned, a nil channel (the loop blocks for
\* ever) or a closed one (the loop ends at once)
TaskAskFail(i) ==
    /\ Running
    /\ i \in 1..Len(tasks)
    /\ tasks[i].pc = "ask"
    /\ \E outcome \in {"blocked", "done"} :
          tasks' = [tasks EXCEPT ![i].pc = outcome, ![i].closed = (outcome = "done")]
    /\ UNCHANGED <<build, messages, origin, textarea, viewport, err, stdout, quitCmds, others, status, tool>>

\* the external agent closes the question's channel
AgentClose(i) ==
    /\ Running
    /\ i \in 1..Len(tasks)
    /\ tasks[i].pc \in {"range", "send"}
    /\ ~tasks[i].closed
    /\ tasks' = [tasks EXCEPT ![i].closed = TRUE]
    /\ UNCHANGED <<build, messages, origin, textarea, viewport, err, stdout, quitCmds, others, status, tool>>


\* TaskRecv with the goroutine appending to the transcript itself instead of
\* calling p.Send
TaskRecv_Direct(i, r) ==
    /\ Running
    /\ i \in 1..Len(tasks)
    /\ tasks[i].pc = "range"
    /\ ~tasks[i].closed
    /\ r \in NextResults(tasks[i].stream)
    /\ LET msg == ToMsg(build, r)
           entry == IF msg = NoMsg THEN <<>> ELSE AgentEntry(build, msg)
       IN /\ tasks' = [tasks EXCEPT ![i].stream = Append(@, r)]
          /\ messages' = messages \o entry
          /\ origin' = origin \o [j \in 1..Len(entry) |->
                                     [task |-> i, idx |-> Len(tasks[i].stream) + 1]]
    /\ UNCHANGED <<build, textarea, viewport, err, stdout, quitCmds, others, status, tool>>

\* one iteration of "for result := range results": the agent hands over its
\* next result r (the channel is unbuffered: its send and this receive are one
\* step) and, when a case of the switch matches, p.Send is entered with the message
TaskRecv(i, r) ==
    /\ Running
    /\ i \in 1..Len(tasks)
    /\ tasks[i].pc = "range"
    /\ ~tasks[i].closed
    /\ r \in NextResults(tasks[i].stream)
    /\ LET msg == ToMsg(build, r)
       IN tasks' = [tasks EXCEPT ![i].stream = Append(@, r),
                                 ![i].msg = msg,
                                 ![i].pc = IF msg = NoMsg THEN "range" ELSE "send"]
    /\ UNCHANGED <<build, messages, origin, textarea, viewport, err, stdout, quitCmds, others, status, tool>>

\* the range loop ends: the channel is closed and drained
TaskEnd(i) ==
    /\ Running
    /\ i \in 1..Len(tasks)
    /\ tasks[i].pc = "range"
    /\ tasks[i].closed
    /\ tasks' = [tasks EXCEPT ![i].pc = "done"]
    /\ UNCHANGED <<build, messages, origin, textarea, viewport, err, stdout, quitCmds, others, status, tool>>

\* ------------------------------------------------------------------ Update
OriginOf(entry, i, k) == [j \in 1..Len(entry) |-> [task |-> i, idx |-> k]]


\* UpdateAgentMessage with the entry put first instead of last
UpdateAgentMessage_Front(i) ==
    /\ Running
    /\ i \in 1..Len(tasks)
    /\ tasks[i].pc = "send"
    /\ LET entry == AgentEntry(build, tasks[i].msg)
           msgs == entry \o messages
       IN /\ messages' = msgs
          /\ origin' = OriginOf(entry, i, Len(tasks[i].stream)) \o origin
          /\ viewport' = GotoBottom(render(build, msgs, viewport))
    /\ tasks' = [tasks EXCEPT ![i].pc = "range", ![i].msg = NoMsg]
    /\ UNCHANGED <<build, textarea, err, stdout, quitCmds, others, status, tool>>

\* UpdateAgentMessage with the entry put right after its question's User entry
UpdateAgentMessage_Grouped(i) ==
    /\ Running
    /\ i \in 1..Len(tasks)
    /\ tasks[i].pc = "send"
    /\ LET entry == AgentEntry(build, tasks[i].msg)
           p == CHOOSE j \in 1..Len(origin) :
                   /\ origin[j] = [task |-> i, idx |-> 0]
                   /\ \A k \in (j + 1)..Len(origin) : origin[k] # origin[j]
           msgs == SubSeq(messages, 1, p) \o entry \o SubSeq(messages, p + 1, Len(messages))
       IN /\ messages' = msgs
          /\ origin' = SubSeq(origin, 1, p) \o OriginOf(entry, i, Len(tasks[i].stream))
                         \o SubSeq(origin, p + 1, Len(origin))
          /\ viewport' = GotoBottom(render(build, msgs, viewport))
    /\ tasks' = [tasks EXCEPT ![i].pc = "range", ![i].msg = NoMsg]
    /\ UNCHANGED <<build, textarea, err, stdout, quitCmds, others, status, tool>>

\* the append of Update's agent-message cases, which also lets the sender's
\* p.Send return
AppendAgentMessage(i) ==
    /\ Running
    /\ i \in 1..Len(tasks)
    /\ tasks[i].pc = "send"
    /\ LET entry == AgentEntry(build, tasks[i].msg)
       IN /\ messages' = messages \o entry
          /\ origin' = origin \o OriginOf(entry, i, Len(tasks[i].stream))
    /\ tasks' = [tasks EXCEPT ![i].pc = "range", ![i].msg = NoMsg]

\* Update(answerMessage | reasoningMessage | functionCallMessage): the event
\* loop takes the message task i is sending
UpdateAgentMessage(i) ==
    /\ AppendAgentMessage(i)
    /\ viewport' = GotoBottom(render(build, messages', viewport))
    /\ UNCHANGED <<build, textarea, err, stdout, quitCmds, others, status, tool>>


\* Submit with the transcript assigned instead of appended to
Submit_Reset ==
    /\ Running
    /\ Len(tasks) < MaxTasks
    /\ LET message == SubmitMessage(build, textarea)
           entry == UserEntry(build, message)
       IN /\ messages' = entry
          /\ origin' = OriginOf(entry, Len(tasks) + 1, 0)
          /\ textarea' = Reset(textarea)
          /\ tasks' = Append(tasks, ask(message))

\* Submit without textarea.Reset()
Submit_NoReset ==
    /\ Running
    /\ Len(tasks) < MaxTasks
    /\ LET message == SubmitMessage(build, textarea)
           entry == UserEntry(build, message)
       IN /\ messages' = messages \o entry
          /\ origin' = origin \o OriginOf(entry, Len(tasks) + 1, 0)
          /\ textarea' = textarea
          /\ tasks' = Append(tasks, ask(message))

\* Submit refused while a question is in flight
Submit_Blocked ==
    /\ Running
    /\ Len(tasks) < MaxTasks
    /\ \A i \in 1..Len(tasks) : tasks[i].pc \in {"done", "blocked"}
    /\ LET message == SubmitMessage(build, textarea)
           entry == UserEntry(build, message)
       IN /\ messages' = messages \o entry
          /\ origin' = origin \o OriginOf(entry, Len(tasks) + 1, 0)
          /\ textarea' = Reset(textarea)
          /\ tasks' = Append(tasks, ask(message))


\* Submit that dispatches the question without appending its User entry
Submit_NoEntry ==
    /\ Running
    /\ Len(tasks) < MaxTasks
    /\ messages' = messages
    /\ origin' = origin
    /\ textarea' = Reset(textarea)
    /\ tasks' = Append(tasks, ask(SubmitMessage(build, textarea)))

\* the KeyEnter case without its viewport calls: the User entry is appended,
\* the input box reset and ask called with the message
Submit ==
    /\ Running
    /\ Len(tasks) < MaxTasks
    /\ LET message == SubmitMessage(build, textarea)
           entry == UserEntry(build, message)
       IN /\ messages' = messages \o entry
          /\ origin' = origin \o OriginOf(entry, Len(tasks) + 1, 0)
          /\ textarea' = Reset(textarea)
          /\ tasks' = Append(tasks, ask(message))

\* Update(tea.KeyMsg{Type: tea.KeyEnter})
KeyEnter ==
    /\ Submit
    /\ viewport' = GotoBottom(render(build, messages', viewport))
    /\ UNCHANGED <<build, err, stdout, quitCmds, others, status, tool>>


\* KeyCtrlJ inserting a space instead of a newline
KeyCtrlJ_Space ==
    /\ Running
    /\ others < MaxOther
    /\ others' = others + 1
    /\ textarea' = InsertString(textarea, <<SP>>)
    /\ UNCHANGED <<build, messages, origin, viewport, err, tasks, stdout, quitCmds, status, tool>>

\* Update(tea.KeyMsg{Type: tea.KeyCtrlJ})
KeyCtrlJ ==
    /\ Running
    /\ others < MaxOther
    /\ others' = others + 1
    /\ textarea' = InsertString(textarea, <<NL>>)
    /\ UNCHANGED <<build, messages, origin, viewport, err, tasks, stdout, quitCmds, status, tool>>


\* KeyQuit without the fmt.Println
KeyQuit_NoPrint ==
    /\ Running
    /\ others < MaxOther
    /\ others' = others + 1
    /\ quitCmds' = quitCmds + 1
    /\ UNCHANGED <<build, messages, origin, textarea, viewport, err, tasks, stdout, status, tool>>

\* Update(tea.KeyMsg{Type: tea.KeyCtrlC | tea.KeyEsc}): prints the input box
\* and returns tea.Quit, whose QuitMsg reaches the event loop later
KeyQuit ==
    /\ Running
    /\ others < MaxOther
    /\ others' = others + 1
    /\ stdout' = Append(stdout, textarea.value)
    /\ quitCmds' = quitCmds + 1
    /\ UNCHANGED <<build, messages, origin, textarea, viewport, err, tasks, status, tool>>

\* Update(tea.KeyMsg{Type: tea.KeyRunes}): handled by textarea.Update alone
KeyRunes(c) ==
    /\ Running
    /\ others < MaxOther
    /\ others' = others + 1
    /\ textarea' = InsertString(textarea, <<c>>)
    /\ UNCHANGED <<build, messages, origin, viewport, err, tasks, stdout, quitCmds, status, tool>>

\* Update(tea.KeyMsg{Type: tea.KeyUp}): handled by viewport.Update alone
KeyUp ==
    /\ Running
    /\ others < MaxOther
    /\ others' = others + 1
    /\ viewport' = ViewportLineUp(viewport)
    /\ UNCHANGED <<build, messages, origin, textarea, err, tasks, stdout, quitCmds, status, tool>>


\* WindowSizeMsg without the re-render of a non-empty transcript
WindowSizeMsg_NoRender(w, h) ==
    /\ Running
    /\ others < MaxOther
    /\ others' = others + 1
    /\ viewport' = GotoBottom([viewport EXCEPT !.Width = w,
                                               !.Height = h - TextareaHeight - GapHeight])
    /\ textarea' = SetWidth(textarea, w)
    /\ UNCHANGED <<build, messages, origin, err, tasks, stdout, quitCmds, status, tool>>


\* WindowSizeMsg without the final GotoBottom
WindowSizeMsg_NoScroll(w, h) ==
    /\ Running
    /\ others < MaxOther
    /\ others' = others + 1
    /\ LET sized == [viewport EXCEPT !.Width = w,
                                     !.Height = h - TextareaHeight - GapHeight]
       IN viewport' = IF Len(messages) > 0 THEN render(build, messages, sized) ELSE sized
    /\ textarea' = SetWidth(textarea, w)
    /\ UNCHANGED <<build, messages, origin, err, tasks, stdout, quitCmds, status, tool>>

\* Update(tea.WindowSizeMsg{Width: w, Height: h})
WindowSizeMsg(w, h) ==
    /\ Running
    /\ others < MaxOther
    /\ others' = others + 1
    /\ LET sized == [viewport EXCEPT !.Width = w,
                                     !.Height = h - TextareaHeight - GapHeight]
           drawn == IF Len(messages) > 0 THEN render(build, messages, sized) ELSE sized
       IN viewport' = GotoBottom(drawn)
    /\ textarea' = SetWidth(textarea, w)
    /\ UNCHANGED <<build, messages, origin, err, tasks, stdout, quitCmds, status, tool>>


\* ErrMsg with the error also shown in the transcript
ErrMsg_Shown(e) ==
    /\ Running
    /\ others < MaxOther
    /\ others' = others + 1
    /\ err' = e
    /\ messages' = Append(messages, <<e>>)
    /\ origin' = Append(origin, [task |-> 0, idx |-> 0])
    /\ viewport' = GotoBottom(render(build, messages', viewport))
    /\ UNCHANGED <<build, textarea, tasks, stdout, quitCmds, status, tool>>

\* Update(errMsg)
ErrMsg(e) ==
    /\ Running
    /\ others < MaxOther
    /\ others' = others + 1
    /\ err' = e
    /\ UNCHANGED <<build, messages, origin, textarea, viewport, tasks, stdout, quitCmds, status, tool>>

\* the event loop receives the QuitMsg of a tea.Quit command: Run returns,
\* main returns and the process, with every goroutine, ends
QuitMsg ==
    /\ Running
    /\ quitCmds > 0
    /\ status' = "quit"
    /\ UNCHANGED <<build, messages, origin, textarea, viewport, err, tasks, stdout, quitCmds, others, tool>>

Results == UNION {{q[k] : k \in 1..Len(q)} : q \in Streams}

Next ==
    \/ KeyEnter
    \/ KeyCtrlJ
    \/ KeyQuit
    \/ \E c \in Runes : KeyRunes(c)
    \/ KeyUp
    \/ \E sz \in Sizes : WindowSizeMsg(sz[1], sz[2])
    \/ \E e \in Errs : ErrMsg(e)
    \/ QuitMsg
    \/ \E i \in 1..Len(tasks) : TaskAsk(i)
    \/ \E i \in 1..Len(tasks) : TaskAskFail(i)
    \/ \E i \in 1..Len(tasks) : AgentClose(i)
    \/ \E i \in 1..Len(tasks) : \E r \in Results : TaskRecv(i, r)
    \/ \E i \in 1..Len(tasks) : TaskEnd(i)
    \/ \E i \in 1..Len(tasks) : UpdateAgentMessage(i)

Spec == Init /\ [][Next]_vars


\* ------------------------------------------------------- render under resizes
\* window sizes for sequences of resizes: narrower, narrower still, and back
\* to the initial width
RenderSizes == {<<6, 7>>, <<4, 8>>, <<30, 12>>}

\* the entries Update appends: for a submission, for an agent message
UserEntries(b) == {UserEntry(b, SubmitMessage(b, [value |-> v, width |-> InitWidth])) :
                      v \in {<<>>, <<"a">>}}
AgentEntries(b) == {AgentEntry(b, ToMsg(b, r)) : r \in {r \in Results : ToMsg(b, r) # NoMsg}}

\* transcripts Update builds: a User entry followed by up to two agent entries
RenderTranscripts(b) ==
    UserEntries(b)
      \cup {u \o a : u \in UserEntries(b), a \in AgentEntries(b)}
      \cup {u \o a \o c : u \in UserEntries(b), a \in AgentEntries(b), c \in AgentEntries(b)}

\* the model as Update left it after the last append to such a transcript,
\* with no task running any more
RenderInit ==
    /\ build \in Builds
    /\ messages \in RenderTranscripts(build)
    /\ origin = [j \in 1..Len(messages) |-> [task |-> 0, idx |-> 0]]
    /\ textarea = [value |-> <<>>, width |-> InitWidth]
    /\ viewport = GotoBottom(render(build, messages,
                     SetContent([Width |-> InitWidth, Height |-> InitHeight,
                                 content |-> <<>>, YOffset |-> 0], WelcomeText)))
    /\ err = NoErr
    /\ tasks = <<>>
    /\ stdout = <<>>
    /\ quitCmds = 0
    /\ others = 0
    /\ status = "running"
    /\ tool = NoCall

RenderNext ==
    \/ \E sz \in RenderSizes : WindowSizeMsg(sz[1], sz[2])
    \/ KeyUp

RenderSpec == RenderInit /\ [][RenderNext]_vars

\* =================================================================== tools
\* The handlers of the tool table (Tools in src/tool.go, tools in part_001),
\* called by the agent with a JSON argument string.  A JSON text is a sequence
\* of lexical tokens.
Tok(k, v) == [k |-> k, v |-> v]
LBrace == Tok("{", "")
RBrace == Tok("}", "")
Colon == Tok(":", "")
Str(v) == Tok("str", v)
Num(v) == Tok("num", v)

ArgStrings ==
    { <<LBrace>>,                                           \* {
      <<LBrace, RBrace>>,                                   \* {}
      <<LBrace, Str("keyword"), Colon, Str("go"), RBrace>>, \* {"keyword":"go"}
      <<LBrace, Str("keyword"), Colon, Num("7"), RBrace>>,  \* {"keyword":7}
      <<LBrace, Str("url"), Colon, Str("http://ok"), RBrace>>,
      <<LBrace, Str("url"), Colon, Str(":"), RBrace>> }     \* a URL url.Parse rejects

ToolNames == {"currentTime", "webSearch", "WebReader"}

\* json.Unmarshal([]byte(args), &param) for a struct with one string field:
\* err is "" for a nil error, value is the field after the call
Unmarshal(args, field) ==
    IF args = <<LBrace, RBrace>> THEN [err |-> "", value |-> ""]
    ELSE IF /\ Len(args) = 5
            /\ args[1] = LBrace /\ args[2].k = "str" /\ args[3] = Colon
            /\ args[4].k \in {"str", "num"} /\ args[5] = RBrace
    THEN IF args[2].v # field THEN [err |-> "", value |-> ""]
         ELSE IF args[4].k = "str" THEN [err |-> "", value |-> args[4].v]
         ELSE [err |-> "json: cannot unmarshal number into Go struct field of type string",
               value |-> ""]
    ELSE [err |-> "unexpected end of JSON input", value |-> ""]

\* url.Parse inside http.NewRequest succeeds
UrlParses(u) == u # ":"


\* ParseArgs without the return in the error branch
ParseArgs_NoReturn(t, field, nextpc) ==
    LET u == Unmarshal(t.args, field)
    IN IF u.err # "" THEN [t EXCEPT !.pc = nextpc, !.result = u.err]
       ELSE [t EXCEPT !.pc = nextpc, !.param = u.value]

\* the argument parse that opens webSearch and WebReader: on an error the
\* handler returns fmt.Sprintf("%v", err)
ParseArgs(t, field, nextpc) ==
    LET u == Unmarshal(t.args, field)
    IN IF u.err # "" THEN [t EXCEPT !.pc = "returned", !.result = u.err]
       ELSE [t EXCEPT !.pc = nextpc, !.param = u.value]

ToolUnchanged == UNCHANGED <<build, messages, origin, textarea, viewport, err, tasks,
                             stdout, quitCmds, others, status>>

\* the agent calls Function(args) of the tool called name
ToolInvoke(name, args) ==
    /\ tool.pc \in {"idle", "returned"}
    /\ tool' = [NoCall EXCEPT !.name = name, !.args = args, !.pc = "entered"]
    /\ ToolUnchanged

\* currentTime: return time.Now().Format(time.RFC3339)
CurrentTime ==
    /\ tool.name = "currentTime" /\ tool.pc = "entered"
    /\ \E now \in {"2026-11-01T21:00:00Z", "2026-11-01T21:00:01+09:00"} :
          tool' = [tool EXCEPT !.pc = "returned", !.result = now]
    /\ ToolUnchanged

\* webSearch: err := json.Unmarshal(...); if err != nil { return ... }
WebSearchParse ==
    /\ tool.name = "webSearch" /\ tool.pc = "entered"
    /\ tool' = ParseArgs(tool, "keyword", "search")
    /\ ToolUnchanged

\* webSearch: res, err := web.Search(param.Keyword, 10), then the result list
\* is marshalled and returned, or the error's text is
WebSearchSearch ==
    /\ tool.name = "webSearch" /\ tool.pc = "search"
    /\ \E out \in {"search failed", "[]", "[{\"Title\":\"t\",\"Link\":\"l\",\"Snippet\":\"s\"}]"} :
          tool' = [tool EXCEPT !.pc = "returned", !.netCalls = @ + 1, !.result = out]
    /\ ToolUnchanged

\* WebReader: err := json.Unmarshal(...); if err != nil { return ... }
WebReaderParse ==
    /\ tool.name = "WebReader" /\ tool.pc = "entered"
    /\ tool' = ParseArgs(tool, "url", "newrequest")
    /\ ToolUnchanged

\* WebReader: req, _ := http.NewRequest("GET", param.Url, nil): req is nil
\* when the URL does not parse, and the error is dropped
WebReaderNewRequest ==
    /\ tool.name = "WebReader" /\ tool.pc = "newrequest"
    /\ tool' = [tool EXCEPT !.pc = "setheader",
                            !.req = IF UrlParses(tool.param) THEN "request" ELSE "nil"]
    /\ ToolUnchanged

\* WebReader: req.Header.Set("User-Agent", ...): a nil req is dereferenced
WebReaderSetHeader ==
    /\ tool.name = "WebReader" /\ tool.pc = "setheader"
    /\ tool' = [tool EXCEPT !.pc = IF tool.req = "nil" THEN "panic" ELSE "do"]
    /\ ToolUnchanged

\* WebReader: resp, err := client.Do(req); if err != nil { return ... }
WebReaderDo ==
    /\ tool.name = "WebReader" /\ tool.pc = "do"
    /\ \E ok \in BOOLEAN :
          tool' = IF ok THEN [tool EXCEPT !.pc = "readall", !.netCalls = @ + 1]
                  ELSE [tool EXCEPT !.pc = "returned", !.netCalls = @ + 1,
                                    !.result = "Get: dial tcp: connection refused"]
    /\ ToolUnchanged

\* WebReader: bodyBytes, err := io.ReadAll(resp.Body), then the body is
\* returned, or the error's text is
WebReaderReadAll ==
    /\ tool.name = "WebReader" /\ tool.pc = "readall"
    /\ \E out \in {"unexpected EOF", "hello", ""} :
          tool' = [tool EXCEPT !.pc = "returned", !.result = out]
    /\ ToolUnchanged

ToolNext ==
    \/ \E name \in ToolNames : \E args \in ArgStrings : ToolInvoke(name, args)
    \/ CurrentTime
    \/ WebSearchParse
    \/ WebSearchSearch
    \/ WebReaderParse
    \/ WebReaderNewRequest
    \/ WebReaderSetHeader
    \/ WebReaderDo
    \/ WebReaderReadAll

ToolSpec == Init /\ [][ToolNext]_vars

\* ================================================================== claims
\* Views of the state used by the properties below.  They read the transcript
\* by its tokens, independently of the operators that build it.
UserLabels == {" You ", "You:"}
AgentLabels == {" Agent ", "Agent", " Reasoning ", "Reasoning",
                " Function Call ", "Function Call"}

HasToken(e, toks) == \E k \in 1..Len(e) : e[k] \in toks

\* elements of model.messages that carry the User label, an agent-role label
UserCount == Cardinality({j \in 1..Len(messages) : HasToken(messages[j], UserLabels)})
AgentCount == Cardinality({j \in 1..Len(messages) : HasToken(messages[j], AgentLabels)})

\* N: Enter submissions processed (each started one task)
Submissions == Len(tasks)

Forwardable(r) == r.type \in {"MessageResult", "ReasoningResult", "FunctionCallResult"}

\* indices, in task i's stream, of the results whose message Update has handled
AppliedIdx(i) ==
    {k \in 1..Len(tasks[i].stream) :
        /\ Forwardable(tasks[i].stream[k])
        /\ ~(tasks[i].pc = "send" /\ k = Len(tasks[i].stream))}

RECURSIVE SumApplied(_)
SumApplied(n) == IF n = 0 THEN 0 ELSE Cardinality(AppliedIdx(n)) + SumApplied(n - 1)

\* M: agent result messages processed by Update
AgentMessages == SumApplied(Len(tasks))

\* elements one transcript entry occupies in model.messages
ElemsPerEntry == IF build = "part_000" THEN 1 ELSE 2

\* --------------------------------------------------------------------- C1
\* C1 as amended: after N Enter submissions and M agent result messages the
\* transcript holds N + M entries, N User entries and M agent-role entries,
\* whatever other events were handled; an entry is one element of
\* model.messages in part_000 and two consecutive elements (label, text) in
\* part_001, so len(model.messages) is N + M there and 2 * (N + M) here.
C1_TranscriptLength ==
    /\ Len(messages) = ElemsPerEntry * (Submissions + AgentMessages)
    /\ UserCount = Submissions
    /\ AgentCount = AgentMessages

\* C1 as stated: model.messages holds exactly N + M entries.
C1_Original ==
    /\ Len(messages) = Submissions + AgentMessages
    /\ UserCount = Submissions
    /\ AgentCount = AgentMessages

\* two submissions and three agent messages handled, with other events between
C1_Witness ==
    /\ Submissions = 2
    /\ AgentMessages = 3
    /\ others = MaxOther
    /\ err # NoErr
    /\ viewport.Width # InitWidth

\* --------------------------------------------------------------------- C2
RECURSIVE OriginIdxOf(_, _)
\* the result indices of task i's agent elements, in transcript order
OriginIdxOf(i, n) ==
    IF n = 0 THEN <<>>
    ELSE OriginIdxOf(i, n - 1)
         \o (IF origin[n].task = i /\ origin[n].idx > 0 THEN <<origin[n].idx>> ELSE <<>>)

RECURSIVE Ascending(_, _)
\* the members of the set S of numbers from lo up, in increasing order, each
\* repeated ElemsPerEntry times
Ascending(S, lo) ==
    IF \A k \in S : k < lo THEN <<>>
    ELSE (IF lo \in S THEN [j \in 1..ElemsPerEntry |-> lo] ELSE <<>>) \o Ascending(S, lo + 1)

\* the transcript element j holds the text of the result it is attributed to
ShowsItsResult(j) ==
    LET r == tasks[origin[j].task].stream[origin[j].idx]
    IN \E k \in 1..Len(messages[j]) :
             k + Len(r.text) - 1 <= Len(messages[j])
             /\ SubSeq(messages[j], k, k + Len(r.text) - 1) = r.text

\* C2: the agent-role entries that come from one question appear in the
\* transcript in the order in which the agent yielded their results.
C2_PerQuestionOrder ==
    /\ Len(origin) = Len(messages)
    /\ \A i \in 1..Len(tasks) : OriginIdxOf(i, Len(origin)) = Ascending(AppliedIdx(i), 1)
    /\ \A j \in 1..Len(messages) :
          origin[j].idx > 0 =>
             /\ origin[j].idx <= Len(tasks[origin[j].task].stream)
             /\ build = "part_000" =>
                   (ShowsItsResult(j) /\ HasToken(messages[j], AgentLabels))
             /\ build = "part_001" =>
                   (ShowsItsResult(j) \/ HasToken(messages[j], AgentLabels))

\* both results of a two-result question are in the transcript, with an entry
\* of the other question between them, after other UI events
C2_Witness ==
    \E i \in 1..Len(tasks) : \E a, b, c \in 1..Len(origin) :
        /\ a < b /\ b < c
        /\ origin[a].task = i /\ origin[a].idx = 1
        /\ origin[c].task = i /\ origin[c].idx = 2
        /\ origin[b].task # i
        /\ others > 0

\* --------------------------------------------------------------------- C3
\* C3: with two questions submitted, each question's entries keep their own
\* relative order in the transcript (the orders between the two questions that
\* are reachable are C3_Interleaved, C3_SecondBefore and C3_SecondAfter).
C3_TwoQuestions ==
    Len(tasks) = 2 =>
        \A a, b \in 1..Len(origin) :
            (a < b /\ origin[a].task = origin[b].task) => origin[a].idx <= origin[b].idx

AgentPositions(i) == {j \in 1..Len(origin) : origin[j].task = i /\ origin[j].idx > 0}

\* both questions were submitted before either produced a result
BothSubmittedFirst ==
    /\ Len(tasks) = 2
    /\ \A j \in AgentPositions(1) \cup AgentPositions(2) :
          \A u \in 1..Len(origin) : origin[u].idx = 0 => u < j

\* the second question's entry lies between two entries of the first
C3_Interleaved ==
    /\ BothSubmittedFirst
    /\ \E a, c \in AgentPositions(1) : \E b \in AgentPositions(2) : a < b /\ b < c

\* the second question's entries come entirely before the first's
C3_SecondBefore ==
    /\ BothSubmittedFirst
    /\ Cardinality(AgentPositions(1)) = 2 * ElemsPerEntry
    /\ AgentPositions(2) # {}
    /\ \A a \in AgentPositions(1) : \A b \in AgentPositions(2) : b < a

\* the second question's entries come entirely after the first's
C3_SecondAfter ==
    /\ BothSubmittedFirst
    /\ Cardinality(AgentPositions(1)) = 2 * ElemsPerEntry
    /\ AgentPositions(2) # {}
    /\ \A a \in AgentPositions(1) : \A b \in AgentPositions(2) : a < b

\* --------------------------------------------------------------------- C4
LayoutTokens == EscTokens \cup {SP, NL, "BORDER"}
IsVisible(tok) == tok \notin LayoutTokens
\* the label and text tokens of a string, without styling and layout
Visible(s) == SelectSeq(s, IsVisible)

\* C4: the transcript is append-only (before every step a prefix of the
\* transcript after it), and what render puts in the viewport shows the
\* entries in transcript index order.
C4_AppendOnly ==
    /\ [][IsPrefix(messages, messages')]_vars
    /\ [](Len(messages) > 0 => Visible(viewport.content) = Visible(Concat(messages)))

\* a transcript of four elements or more, rendered at the resized width
C4_Witness ==
    /\ Len(messages) >= 4
    /\ AgentMessages >= 1
    /\ viewport.Width # InitWidth
    /\ Visible(viewport.content) = Visible(Concat(messages))

\* --------------------------------------------------------------------- C5
\* a step that starts a background task: an Enter submission
EnterStep == Len(tasks') = Len(tasks) + 1

IsSuffix(p, q) == Len(p) <= Len(q) /\ p = SubSeq(q, Len(q) - Len(p) + 1, Len(q))

\* the User entry for input-box text t, as each program stores it
YouEntry(t) ==
    IF build = "part_000"
    THEN << <<"ESC[bg5m", " You ", "ESC[0m", SP>> \o t >>
    ELSE << <<"ESC[bg5m", "You:", "ESC[0m">>, t \o <<NL>> >>

\* the question an Enter with input-box text t hands to ask
QuestionFor(t) == IF build = "part_000" THEN t ELSE t \o <<NL>>

\* C5 as amended: on Enter with input-box content t (any t, the empty string
\* included) Update appends exactly one User entry to the end of the
\* transcript and leaves the input box empty; it returns without waiting for
\* any agent result (no task has advanced, the new one has not called the
\* agent yet), and the controller then has an outstanding request.  In
\* part_000 the entry's text is t and the request is for t; in part_001 the
\* entry is a label element followed by the text t + "\n", and the request is
\* for t + "\n".
C5_Submit ==
    [][EnterStep =>
         /\ messages' = messages \o YouEntry(textarea.value)
         /\ textarea'.value = <<>>
         /\ SubSeq(tasks', 1, Len(tasks)) = tasks
         /\ tasks'[Len(tasks')].pc = "ask"
         /\ tasks'[Len(tasks')].stream = <<>>
         /\ tasks'[Len(tasks')].question = QuestionFor(textarea.value)]_vars

\* C5 as stated: one User entry whose text is t, and a request for t.
C5_Original ==
    [][EnterStep =>
         /\ Len(messages') = Len(messages) + 1
         /\ SubSeq(messages', 1, Len(messages)) = messages
         /\ HasToken(messages'[Len(messages')], UserLabels)
         /\ IsSuffix(<<SP>> \o textarea.value, messages'[Len(messages')])
         /\ textarea'.value = <<>>
         /\ tasks'[Len(tasks')].pc = "ask"
         /\ tasks'[Len(tasks')].question = textarea.value]_vars

\* right after a second Enter, typed text "a", while the first (empty)
\* question's task is still sending a result
C5_Witness ==
    /\ Len(tasks) = 2
    /\ tasks[2].pc = "ask"
    /\ tasks[2].question = QuestionFor(<<"a">>)
    /\ tasks[1].question = QuestionFor(<<>>)
    /\ tasks[1].pc = "send"
    /\ textarea.value = <<>>
    /\ Len(messages) = 2 * ElemsPerEntry

\* --------------------------------------------------------------------- C6
\* the User entry of task i shows the question q
UserEntryShows(i, q) ==
    \E j \in 1..Len(messages) :
        /\ origin[j] = [task |-> i, idx |-> 0]
        /\ IF build = "part_000"
           THEN HasToken(messages[j], UserLabels) /\ IsSuffix(<<SP>> \o q, messages[j])
           ELSE messages[j] = q

\* C6 as amended: each Enter submission starts exactly one background task and
\* no other event starts one, so the tasks started are as many as the User
\* entries; the question the task passes to the agent is the text shown in
\* its User entry: the input-box text at submit time in part_000, that text
\* followed by "\n" in part_001.
C6_OneTaskPerSubmit ==
    /\ [](/\ Len(tasks) = UserCount
          /\ Len(origin) = Len(messages)
          /\ \A i \in 1..Len(tasks) : UserEntryShows(i, tasks[i].question))
    /\ [][Len(tasks') # Len(tasks) => (EnterStep /\ UserCount' = UserCount + 1)]_vars
    /\ [][EnterStep => tasks'[Len(tasks')].question = QuestionFor(textarea.value)]_vars
    /\ [][\A i \in 1..Len(tasks) : i <= Len(tasks') => tasks'[i].question = tasks[i].question]_vars

\* C6 as stated: the question is exactly the input-box text at submit time.
C6_Original ==
    /\ [](Len(tasks) = UserCount)
    /\ [][Len(tasks') # Len(tasks) => (EnterStep /\ UserCount' = UserCount + 1)]_vars
    /\ [][EnterStep => tasks'[Len(tasks')].question = textarea.value]_vars

\* two tasks started with different questions, the first already past its call
\* of the agent
C6_Witness ==
    /\ Len(tasks) = 2
    /\ UserCount = 2
    /\ tasks[1].question # tasks[2].question
    /\ tasks[1].pc = "range"
    /\ Len(tasks[1].stream) > 0

\* --------------------------------------------------------------------- C7
InFlight(i) == tasks[i].pc \in {"ask", "range", "send"}

\* C7: submission is never blocked by outstanding requests: in every state
\* before the program has quit, Enter performs a full submit (a new User
\* entry and a new background task) and the input box takes a typed
\* character, however many questions are in flight (here up to MaxTasks
\* submissions, and up to the input box's character limit).
C7_NeverBlocked ==
    Running =>
        /\ Len(tasks) < MaxTasks =>
              ENABLED (Submit /\ Len(tasks') = Len(tasks) + 1
                              /\ Len(messages') = Len(messages) + ElemsPerEntry)
        /\ (others < MaxOther /\ Len(textarea.value) < MaxInput) =>
              \A c \in Runes :
                  ENABLED (KeyRunes(c) /\ textarea'.value = Append(textarea.value, c))

\* a question is in flight, its task waiting in p.Send, and Enter still
\* submits a further one
C7_Witness ==
    /\ Running
    /\ Len(tasks) >= 1
    /\ Len(tasks) < MaxTasks
    /\ \A i \in 1..Len(tasks) : InFlight(i)
    /\ tasks[1].pc = "send"
    /\ others < MaxOther
    /\ textarea.value = <<>>
    /\ ENABLED (Submit /\ Len(tasks') = Len(tasks) + 1)

\* --------------------------------------------------------------------- C8
\* the event loop keeps receiving from its message channel until it quits, so
\* a goroutine waiting in p.Send is served; a step that appends task i's
\* message is an UpdateAgentMessage(i) step.  The goroutine that runs a
\* tea.Quit command is served the same way, and a goroutine whose range loop
\* has found its channel closed is scheduled to return.
FairSpec ==
    /\ Spec
    /\ \A i \in 1..MaxTasks : WF_<<messages, origin, tasks>>(AppendAgentMessage(i))
    /\ WF_vars(QuitMsg)
    /\ \A i \in 1..MaxTasks : WF_vars(TaskEnd(i))

\* the label that tags an entry made from a result of the given type
RoleLabel(type) ==
    CASE type = "MessageResult" -> IF build = "part_000" THEN " Agent " ELSE "Agent"
      [] type = "ReasoningResult" -> IF build = "part_000" THEN " Reasoning " ELSE "Reasoning"
      [] type = "FunctionCallResult" ->
           IF build = "part_000" THEN " Function Call " ELSE "Function Call"

RECURSIVE ElemsOf(_, _, _)
\* the elements among the first n of the transcript that come from result k
\* of task i, joined in transcript order
ElemsOf(i, k, n) ==
    IF n = 0 THEN <<>>
    ELSE ElemsOf(i, k, n - 1)
         \o (IF origin[n] = [task |-> i, idx |-> k] THEN messages[n] ELSE <<>>)

EntryPositions(i, k) == {j \in 1..Len(origin) : origin[j] = [task |-> i, idx |-> k]}

\* every result handled so far made exactly one entry, with the label of its
\* type and its display string; no other result has an entry
ExactlyOneEntryEach ==
    /\ Len(origin) = Len(messages)
    /\ \A i \in 1..Len(tasks) : \A k \in 1..Len(tasks[i].stream) :
          LET r == tasks[i].stream[k]
          IN IF k \in AppliedIdx(i)
             THEN /\ Cardinality(EntryPositions(i, k)) = ElemsPerEntry
                  /\ Visible(ElemsOf(i, k, Len(origin))) = <<RoleLabel(r.type)>> \o r.text
             ELSE EntryPositions(i, k) = {}

\* every Message, Reasoning or FunctionCall result yielded so far has its entry
AllYieldedApplied ==
    \A i \in 1..Len(tasks) : \A k \in 1..Len(tasks[i].stream) :
        Forwardable(tasks[i].stream[k]) => EntryPositions(i, k) # {}

\* C8: every Message, Reasoning or FunctionCall result the agent yields makes
\* exactly one transcript entry, tagged Agent-Answer, Agent-Reasoning or
\* Agent-FunctionCall and carrying the result's display string, never twice
\* and never with another role; and unless the program quits, every such
\* result is eventually applied (the event loop being fair to each sender).
\* Yielded results stay yielded and entries stay in the transcript (second
\* conjunct), so "each is eventually applied unless the program quits" is:
\* from some point on the program has quit or every yielded result is applied.
C8_EveryResultOnce ==
    /\ []ExactlyOneEntryEach
    /\ [][\A i \in 1..Len(tasks) : \A k \in 1..Len(tasks[i].stream) :
            /\ k <= Len(tasks'[i].stream) /\ tasks'[i].stream[k] = tasks[i].stream[k]
            /\ EntryPositions(i, k) # {} => EntryPositions(i, k)' # {}]_vars
    /\ <>[](status = "quit" \/ AllYieldedApplied)

\* an answer, a reasoning trace and a function call notice have all been
\* applied, from two questions
C8_Witness ==
    /\ status = "running"
    /\ AgentMessages = 3
    /\ \A l \in {RoleLabel("MessageResult"), RoleLabel("ReasoningResult"),
                 RoleLabel("FunctionCallResult")} :
          \E j \in 1..Len(messages) : HasToken(messages[j], {l})
    /\ ExactlyOneEntryEach

\* --------------------------------------------------------------------- C9
\* C9: no tool handler ever panics; every invocation ends by returning a
\* string.  (WebReader violates it: a URL that http.NewRequest rejects leaves
\* req nil, and req.Header.Set then dereferences it.)
C9_HandlersNeverPanic == tool.pc # "panic"

\* -------------------------------------------------------------------- C10
\* the Go field each handler's argument struct has, as its JSON key
FieldOf(name) == IF name = "webSearch" THEN "keyword" ELSE "url"

\* argument strings json.Unmarshal reports an error for: truncated JSON, and
\* a number where the struct field is a string
Malformed(args, field) ==
    \/ args = <<LBrace>>
    \/ Len(args) = 5 /\ args[2] = Str(field) /\ args[4].k = "num"

JsonErrors == {"unexpected end of JSON input",
               "json: cannot unmarshal number into Go struct field of type string"}

\* C10: when the argument string of webSearch or WebReader fails to parse,
\* the handler returns a non-empty string describing the parse failure and
\* makes no network call; a network call is made only after a successful
\* parse, and at most one per invocation.
C10_ParseFailure ==
    /\ tool.netCalls <= 1
    /\ (tool.name \in {"webSearch", "WebReader"} /\ tool.pc # "entered") =>
          IF Malformed(tool.args, FieldOf(tool.name))
          THEN /\ tool.pc = "returned"
               /\ tool.result \in JsonErrors
               /\ tool.result # ""
               /\ tool.netCalls = 0
          ELSE tool.pc = "returned" => tool.result \notin JsonErrors

\* webSearch called with the argument string "{" has returned
C10_Witness ==
    /\ tool.name = "webSearch"
    /\ tool.args = <<LBrace>>
    /\ tool.pc = "returned"
    /\ tool.result = "unexpected end of JSON input"
    /\ tool.netCalls = 0

\* -------------------------------------------------------------------- C11
\* C11: an Escape or Ctrl+C key event prints the input box's current content
\* to standard output exactly once, leaves the transcript (and the input box)
\* unchanged and returns tea.Quit, after which the program terminates (the
\* event loop being fair to the quit command); every quit command comes from
\* such a key, nothing else terminates the program, and once it has
\* terminated no agent event still in flight is applied to the transcript.
C11_Quit ==
    /\ [](quitCmds = Len(stdout))
    /\ [][(stdout' # stdout \/ quitCmds' # quitCmds) =>
            /\ stdout' = Append(stdout, textarea.value)
            /\ quitCmds' = quitCmds + 1
            /\ messages' = messages
            /\ textarea' = textarea
            /\ status' = status]_vars
    /\ [][status' # status => (status = "running" /\ status' = "quit" /\ quitCmds > 0)]_vars
    /\ [][status = "quit" => (messages' = messages /\ tasks' = tasks)]_vars
    /\ (quitCmds > 0) ~> (status = "quit")

\* the program has terminated on a quit key pressed with "a" in the input
\* box, while a task was waiting in p.Send with a result that is never applied
C11_Witness ==
    /\ status = "quit"
    /\ stdout = << <<"a">> >>
    /\ \E i \in 1..Len(tasks) : tasks[i].pc = "send"
    /\ Len(messages) = ElemsPerEntry

\* -------------------------------------------------------------------- C12
\* C12 as amended: in every reachable state with a non-empty transcript the
\* viewport content equals the render of the current transcript at the
\* current viewport width; while the transcript is empty (the initial state,
\* and resizes before the first submission) the viewport shows the welcome
\* text instead, which is not a render of the empty transcript.
C12_ContentIsRender ==
    /\ Len(messages) > 0 =>
          viewport.content = RenderString(build, messages, viewport.Width)
    /\ Len(messages) = 0 =>
          /\ viewport.content = WelcomeText
          /\ viewport.content # RenderString(build, messages, viewport.Width)

\* C12 as stated: in every reachable state, the initial one included, the
\* viewport content equals render(current transcript, current width).
C12_Original == viewport.content = RenderString(build, messages, viewport.Width)

\* a transcript of three entries, the last one appended after a resize, shown
\* wrapped at the new width
C12_Witness ==
    /\ Len(messages) = 3 * ElemsPerEntry
    /\ viewport.Width # InitWidth
    /\ viewport.content = RenderString(build, messages, viewport.Width)
    /\ viewport.content # RenderString(build, messages, InitWidth)

\* -------------------------------------------------------------------- C13
\* what one render of the current transcript at width w writes into a
\* viewport that has shown nothing before
FreshRender(w) ==
    render(build, messages, [Width |-> w, Height |-> InitHeight,
                             content |-> <<>>, YOffset |-> 0]).content

\* C13: render is a function of (transcript, viewport width) only: rendering
\* again with unchanged transcript and width leaves the viewport content as it
\* is, and after any sequence of resizes with an unchanged non-empty
\* transcript the content is what a single render at the final width gives,
\* whatever widths were used before.
C13_RenderIsFunction ==
    /\ [](Len(messages) > 0 =>
            /\ viewport.content = FreshRender(viewport.Width)
            /\ render(build, messages, viewport).content = viewport.content
            /\ render(build, messages, render(build, messages, viewport))
                 = render(build, messages, viewport))
    /\ [][(messages' = messages /\ viewport'.Width = viewport.Width
             /\ Len(messages) > 0) => viewport'.content = viewport.content]_vars

\* two resizes, to a narrow width and back to the initial one, of a transcript
\* that wraps differently at the two widths
C13_Witness ==
    /\ others = 2
    /\ Len(messages) = 3 * ElemsPerEntry
    /\ viewport.Width = InitWidth
    /\ viewport.Height # InitHeight
    /\ viewport.content = FreshRender(InitWidth)
    /\ FreshRender(6) # FreshRender(InitWidth)
    /\ FreshRender(4) # FreshRender(6)

\* -------------------------------------------------------------------- C14
\* the step in which task i's call of agent.Ask returns an error
AskFails(i) ==
    /\ i <= Len(tasks')
    /\ tasks[i].pc = "ask"
    /\ tasks'[i].pc \in {"blocked", "done"}

\* task i never got a result: its call failed, or its channel closed empty
NoResults(i) == tasks[i].pc \in {"blocked", "done"} /\ tasks[i].stream = <<>>

\* C14: when the call that starts a question (agent.Ask) fails the failure is
\* discarded: the step changes no UI state (transcript, viewport, input box,
\* err field) and no other task, the transcript never gets an entry for that
\* request, the task sends the UI no event, then or later, and the UI loop and
\* the other in-flight requests go on: Enter still submits and a message
\* another task is sending is still taken.
C14_AskFailureDiscarded ==
    /\ [][\A i \in 1..Len(tasks) : AskFails(i) =>
            /\ messages' = messages /\ viewport' = viewport
            /\ textarea' = textarea /\ err' = err /\ status' = status
            /\ Len(tasks') = Len(tasks)
            /\ tasks'[i].msg = NoMsg /\ tasks'[i].stream = <<>>
            /\ \A j \in 1..Len(tasks) : j # i => tasks'[j] = tasks[j]]_vars
    /\ [](\A i \in 1..Len(tasks) : NoResults(i) =>
            /\ tasks[i].msg = NoMsg
            /\ AgentPositions(i) = {}
            /\ Cardinality({j \in 1..Len(origin) : origin[j].task = i}) = ElemsPerEntry)
    /\ [][\A i \in 1..Len(tasks) : NoResults(i) => tasks'[i] = tasks[i]]_vars
    /\ []((Running /\ \E i \in 1..Len(tasks) : tasks[i].pc = "blocked") =>
            /\ Len(tasks) < MaxTasks => ENABLED (Submit /\ Len(tasks') = Len(tasks) + 1)
            /\ \A j \in 1..MaxTasks : (j <= Len(tasks) /\ tasks[j].pc = "send") =>
                  ENABLED (AppendAgentMessage(j) /\ Len(messages') > Len(messages)))

\* the first question's call failed and left its goroutine waiting on a nil
\* channel; the second question, submitted too, has had a result applied
C14_Witness ==
    /\ Len(tasks) = 2
    /\ tasks[1].pc = "blocked"
    /\ AgentPositions(1) = {}
    /\ AgentPositions(2) # {}
    /\ err = NoErr

\* -------------------------------------------------------------------- C15
\* C15: every background task eventually runs to completion: once the agent
\* has closed the question's result stream, or the call that starts the
\* question has failed, the task reaches its end under fair scheduling (read
\* here with the program's own termination as the only excuse).  The code
\* violates it: the error of agent.Ask is dropped and the loop ranges over the
\* channel returned with it; over a nil channel it blocks for ever.
C15_TasksComplete ==
    \A i \in 1..MaxTasks :
        (i <= Len(tasks) /\ (tasks[i].closed \/ tasks[i].pc = "blocked"))
        ~> (status = "quit" \/ (i <= Len(tasks) /\ tasks[i].pc = "done"))

\* -------------------------------------------------------------------- C16
\* the offset of a viewport scrolled to the bottom of what it shows
BottomOf(vp) ==
    LET n == Cardinality({k \in 1..Len(vp.content) : vp.content[k] = NL}) + 1
    IN IF n > vp.Height THEN n - vp.Height ELSE 0

\* C16: a window resize to (width, height) sets the viewport width and the
\* input-box width to width and the viewport height to height less the
\* input box's height and the gap, leaves the transcript, the input-box text
\* and the tasks unchanged, shows the transcript rendered at the new width
\* when it is non-empty (and leaves the content alone when it is empty), and
\* leaves the viewport scrolled to the bottom.
C16_Resize ==
    [][\A sz \in Sizes : WindowSizeMsg(sz[1], sz[2]) =>
          /\ viewport'.Width = sz[1]
          /\ textarea'.width = sz[1]
          /\ viewport'.Height = sz[2] - TextareaHeight - GapHeight
          /\ messages' = messages
          /\ textarea'.value = textarea.value
          /\ tasks' = tasks
          /\ Len(messages) > 0 => viewport'.content = FreshRender(sz[1])
          /\ Len(messages) = 0 => viewport'.content = viewport.content
          /\ viewport'.YOffset = BottomOf(viewport')]_vars

\* after a resize: new widths, text still in the input box, a task still
\* waiting in p.Send, the transcript re-wrapped and scrolled to its bottom
C16_Witness ==
    /\ viewport.Width \in {sz[1] : sz \in Sizes}
    /\ textarea.width = viewport.Width
    /\ viewport.Width # InitWidth
    /\ textarea.value = <<"a">>
    /\ \E i \in 1..Len(tasks) : tasks[i].pc = "send"
    /\ Len(messages) >= 2 * ElemsPerEntry
    /\ viewport.content = FreshRender(viewport.Width)
    /\ viewport.content # FreshRender(InitWidth)
    /\ viewport.YOffset > 0
    /\ viewport.YOffset = BottomOf(viewport)

\* -------------------------------------------------------------------- C17
\* the state Update owns
uiState == <<messages, viewport, textarea, err>>

\* a step of the event loop: an Enter, another input event, or the receipt of
\* the message task i is sending
EventLoopStep ==
    \/ Len(tasks') = Len(tasks) + 1
    \/ others' = others + 1
    \/ \E i \in 1..Len(tasks) : tasks[i].pc = "send" /\ tasks'[i].pc = "range"

\* a step of task i's goroutine or of the agent feeding it: anything that
\* moves the task, except the event loop taking its message
BackgroundStep(i) ==
    /\ i <= Len(tasks')
    /\ tasks'[i] # tasks[i]
    /\ ~(tasks[i].pc = "send" /\ tasks'[i].pc = "range")

\* C17: UI state (transcript, viewport, input box, err) changes only in steps
\* of the event loop: every step of a background task, whether calling the
\* agent, receiving a result or entering p.Send, leaves all UI state unchanged
\* and at most leaves one message waiting to be taken; so no step of a task
\* writes UI state, concurrently or otherwise.
C17_OnlyUpdateWritesUI ==
    /\ [][uiState' # uiState => EventLoopStep]_vars
    /\ [][\A i \in 1..Len(tasks) : BackgroundStep(i) =>
            /\ uiState' = uiState
            /\ tasks'[i].pc = "send" <=> tasks'[i].msg # NoMsg
            /\ \A j \in 1..Len(tasks) : j # i => tasks'[j] = tasks[j]]_vars
    /\ [](\A i \in 1..Len(tasks) : tasks[i].pc = "send" <=> tasks[i].msg # NoMsg)

\* both tasks have a message waiting in p.Send: the second result of the first
\* question and the first of the second; neither is in the transcript
C17_Witness ==
    /\ Len(tasks) = 2
    /\ tasks[1].pc = "send" /\ Len(tasks[1].stream) = 2
    /\ tasks[2].pc = "send" /\ Len(tasks[2].stream) = 1
    /\ Cardinality(AgentPositions(1)) = ElemsPerEntry
    /\ AgentPositions(2) = {}

\* -------------------------------------------------------------------- C18
\* newlines in the input-box text
Newlines(v) == Cardinality({k \in 1..Len(v) : v[k] = NL})

\* what Ctrl+J and Enter do besides the input-box text: Ctrl+J neither
\* submits nor dispatches, Enter leaves no newline in the box, and no step
\* but Ctrl+J puts one there
CtrlJFrame ==
    /\ [][KeyCtrlJ => (messages' = messages /\ tasks' = tasks /\ viewport' = viewport)]_vars
    /\ [][EnterStep => Newlines(textarea'.value) = 0]_vars
    /\ [][Newlines(textarea'.value) > Newlines(textarea.value) =>
            (KeyCtrlJ /\ ~EnterStep)]_vars

C19_Causality ==
    /\ Len(origin) = Len(messages)
    /\ \A j \in 1..Len(origin) :
          /\ origin[j].task \in 1..Len(tasks)
          /\ origin[j].idx > 0 =>
                \E u \in 1..(j - 1) :
                    /\ origin[u] = [task |-> origin[j].task, idx |-> 0]
                    /\ HasToken(messages[u], UserLabels)
    /\ AgentCount = Cardinality({j \in 1..Len(origin) :
                                    /\ origin[j].idx > 0
                                    /\ HasToken(messages[j], AgentLabels)})
    /\ Len(messages) > 0 =>
          /\ HasToken(messages[1], UserLabels)
          /\ ~HasToken(messages[1], AgentLabels)
    /\ Len(tasks) = 0 => AgentCount = 0

\* two questions, both answered, an entry of the second before an entry of
\* the first, each after the User entry of its own question
C19_Witness ==
    /\ Len(tasks) = 2
    /\ \E a \in AgentPositions(1) : \E b \in AgentPositions(2) : b < a
    /\ \A j \in AgentPositions(1) \cup AgentPositions(2) :
          \E u \in 1..(j - 1) : origin[u] = [task |-> origin[j].task, idx |-> 0]
    /\ HasToken(messages[1], UserLabels)

\* -------------------------------------------------------------------- C20
\* the step in which task i receives a result of a type ask's switch has no
\* case for
DropsResult(i) ==
    /\ i <= Len(tasks')
    /\ Len(tasks'[i].stream) = Len(tasks[i].stream) + 1
    /\ ~Forwardable(tasks'[i].stream[Len(tasks'[i].stream)])

\* C20: a result on the agent's stream that is none of MessageResult,
\* ReasoningResult and FunctionCallResult is consumed and dropped: receiving
\* it changes no UI state and leaves no message to send, it never has a
\* transcript entry, and the task goes on with its loop: it takes the result
\* that follows, and the results after a dropped one are entered in their
\* original order.
C20_OtherResultsDropped ==
    /\ [][\A i \in 1..Len(tasks) : DropsResult(i) =>
            /\ messages' = messages /\ viewport' = viewport
            /\ textarea' = textarea /\ err' = err
            /\ tasks'[i].pc = "range"
            /\ tasks'[i].msg = NoMsg]_vars
    /\ [](\A i \in 1..Len(tasks) : \A k \in 1..Len(tasks[i].stream) :
            ~Forwardable(tasks[i].stream[k]) =>
               /\ EntryPositions(i, k) = {}
               /\ \A a, c \in 1..Len(origin) :
                     (a < c /\ origin[a].task = i /\ origin[c].task = i)
                        => origin[a].idx <= origin[c].idx)
    /\ [](\A i \in 1..MaxTasks : \A r \in Results :
            (/\ Running
             /\ i <= Len(tasks)
             /\ tasks[i].pc = "range" /\ ~tasks[i].closed
             /\ Len(tasks[i].stream) > 0
             /\ ~Forwardable(tasks[i].stream[Len(tasks[i].stream)])
             /\ r \in NextResults(tasks[i].stream))
            => ENABLED (TaskRecv(i, r) /\ tasks'[i].pc = "send"))

\* a question whose stream had a result of another type between a reasoning
\* trace and an answer: that result has no entry, the other two have theirs,
\* in the order of the stream
C20_Witness ==
    \E i \in 1..Len(tasks) :
        /\ Len(tasks[i].stream) = 3
        /\ ~Forwardable(tasks[i].stream[2])
        /\ EntryPositions(i, 2) = {}
        /\ EntryPositions(i, 1) # {}
        /\ EntryPositions(i, 3) # {}
        /\ \A a \in EntryPositions(i, 1) : \A c \in EntryPositions(i, 3) : a < c
        /\ HasToken(messages[Len(messages) - ElemsPerEntry + 1],
                    {RoleLabel("MessageResult")})

====
